---------------------------- MODULE Spec2Model ----------------------------
(***************************************************************************)
(* Lifecycle and concurrency controller of the rustycan4docker CAN network *)
(* driver: Endpoint (endpoint.rs), Network (network.rs) and NetworkManager *)
(* (manager.rs), together with the kernel objects they command (links and  *)
(* cangw jobs) and the persistence file.                                   *)
(*                                                                         *)
(* Every function of the source is a pure operator over a state record S   *)
(* with the fields                                                         *)
(*   network_list  NetworkManager.network_list : nuid -> Network           *)
(*   links         the kernel's CAN links (vcan buses and vxcan halves)    *)
(*   cangw         the kernel's CAN gateway jobs (a bag)                   *)
(*   file          the persistence file NETWORK_STATE_FILE                 *)
(*   log           the commands spawned by the running operation           *)
(* and the actions apply these operators to the variables.                 *)
(***************************************************************************)
EXTENDS Integers, Sequences, FiniteSets, Bags, TLC

VARIABLES
    network_list,   \* manager.rs:50  HashMap<String, Network>
    links,          \* kernel links, as interfaces::Interface::get_all sees them
    cangw,          \* kernel cangw jobs installed by cangw -A
    file,           \* contents of NETWORK_STATE_FILE
    last,           \* the last operation: its name, arguments and result
    ops,            \* the number of operations since the first start
    pc,             \* per thread: the line its call has reached, or "idle"
    call,           \* per thread: the call it runs
    loc,            \* per thread: the local variables of the call
    held,           \* per thread: the lock guards it holds, oldest first
    calls,          \* per thread: the number of calls it has started
    recoveries,     \* per network id: the Networks that endpoint_attach has
                    \* inserted from the file since the id last left the map
    hist            \* while the threads have run only endpoint_attach and
                    \* endpoint_detach: the state they started from and the
                    \* calls that returned, each with its result

cvars == <<pc, call, loc, held, calls, recoveries, hist>>

vars == <<network_list, links, cangw, file, last, ops, pc, call, loc, held, calls,
          recoveries, hist>>

---------------------------------------------------------------------------
(* Bounds and input domains                                                *)

\* The number of operations of a run of the model.
MaxOps == 5

\* The number of calls each thread makes in a concurrent run of the model.
MaxCalls == 2

\* The threads of the plugin's runtime that serve the engine's requests.
Threads == {"t1", "t2"}

\* Network ids and endpoint ids the engine hands out.
NetIds == {"N1", "N2"}
EpIds == {"AAAAAAAAAA", "BBBBBBBBBB"}

\* endpoint.rs:125  uid.truncate_to_byte_offset(8)
DeviceNameBytes == 8

EmptyMap == [k \in {} |-> TRUE]

MapPut(m, k, v) == [x \in (DOMAIN m) \cup {k} |-> IF x = k THEN v ELSE m[x]]

MapDel(m, k) == [x \in (DOMAIN m) \ {k} |-> m[x]]

\* A JSON value of an options object: a string, or something that is not one.
JStr(s) == [str |-> TRUE, s |-> s]

JNum == [str |-> FALSE, s |-> "1"]

\* An options blob: text that is not JSON, or a JSON object.
NotJson == [json |-> FALSE, obj |-> EmptyMap]

Json(o) == [json |-> TRUE, obj |-> o]

CreateOptions ==
    { NotJson,
      Json([k \in {"vxcan.dev", "vxcan.peer", "vxcan.id"} |->
              CASE k = "vxcan.dev" -> JStr("vcan")
                [] k = "vxcan.peer" -> JStr("vcanp")
                [] k = "vxcan.id" -> JStr("0")]),
      Json([k \in {"vxcan.id"} |-> JStr("1")]),
      Json([k \in {"vxcan.id"} |-> JNum]) }

AttachOptions ==
    { NotJson,
      Json(EmptyMap),
      Json([k \in {"vxcan.peer"} |-> JStr("can42")]),
      Json([k \in {"vxcan.peer"} |-> JStr("")]),
      Json([k \in {"vxcan.peer"} |-> JNum]) }

\* The calls the engine makes in the model: N1 with every options blob, N2 on
\* the default bus; both endpoints on N1, the first one also on N2.
NetworkCreateCalls ==
    {<<"N1", o>> : o \in CreateOptions} \cup {<<"N2", Json([k \in {"vxcan.id"} |-> JNum])>>}

EndpointCalls == {<<"N1", e>> : e \in EpIds} \cup {<<"N2", "AAAAAAAAAA">>}

\* endpoint_attach: every options blob for the first endpoint of N1, and the
\* empty object for the other calls
AttachCalls ==
    {<<"N1", "AAAAAAAAAA", o>> : o \in AttachOptions}
        \cup {<<c[1], c[2], Json(EmptyMap)>> : c \in EndpointCalls}

---------------------------------------------------------------------------
(* The kernel, as the spawned commands and the interface enumeration see   *)
(* it.  A command returns the new state and what the process reported.     *)

Cmd(c, a, b) == [cmd |-> c, a |-> a, b |-> b]

Issue(S, c) == [S EXCEPT !.log = Append(@, c)]

\* interfaces::Interface::get_all(): the names of the links
LinkNames(S) == {l.name : l \in S.links}

Link(name, kind, peer) == [name |-> name, kind |-> kind, peer |-> peer, up |-> FALSE]

\* ip link add dev <ifc> type vcan
IpLinkAddVcan(S, ifc) ==
    LET S1 == Issue(S, Cmd("add_vcan", ifc, ""))
    IN  IF ifc \in LinkNames(S)
        THEN [st |-> S1, status |-> "File exists"]
        ELSE [st |-> [S1 EXCEPT !.links = @ \cup {Link(ifc, "vcan", "")}],
              status |-> "ok"]

\* ip link add dev <dev> type vxcan peer name <peer>
IpLinkAddVxcan(S, dev, peer) ==
    LET S1 == Issue(S, Cmd("add_vxcan", dev, peer))
    IN  IF dev \in LinkNames(S) \/ peer \in LinkNames(S)
        THEN [st |-> S1, status |-> "File exists"]
        ELSE [st |-> [S1 EXCEPT !.links = @ \cup {Link(dev, "vxcan", peer),
                                                  Link(peer, "vxcan", dev)}],
              status |-> "ok"]

\* ip link set up <ifc>
IpLinkSetUp(S, ifc) ==
    LET S1 == Issue(S, Cmd("up", ifc, ""))
    IN  IF ifc \in LinkNames(S)
        THEN [st |-> [S1 EXCEPT !.links =
                        {IF l.name = ifc THEN [l EXCEPT !.up = TRUE] ELSE l : l \in @}],
              status |-> "ok"]
        ELSE [st |-> S1, status |-> "Cannot find device"]

\* ip link set down <ifc>
IpLinkSetDown(S, ifc) ==
    LET S1 == Issue(S, Cmd("down", ifc, ""))
    IN  IF ifc \in LinkNames(S)
        THEN [st |-> [S1 EXCEPT !.links =
                        {IF l.name = ifc THEN [l EXCEPT !.up = FALSE] ELSE l : l \in @}],
              status |-> "ok"]
        ELSE [st |-> S1, status |-> "Cannot find device"]

\* The jobs of bag g that do not name any link of the set gone.
JobsWithout(g, gone) ==
    LET keep == {j \in DOMAIN g : j.src \notin gone /\ j.dst \notin gone}
    IN  [j \in keep |-> g[j]]

\* ip link del dev <ifc> type <kind>: the link goes, with the other half of a
\* vxcan pair and with every gateway job that names a link that went.
IpLinkDel(S, ifc, kind) ==
    LET S1 == Issue(S, Cmd(IF kind = "vcan" THEN "del_vcan" ELSE "del_vxcan", ifc, ""))
        gone == {l.name : l \in {x \in S.links : x.name = ifc \/ x.peer = ifc}}
    IN  IF ifc \in LinkNames(S)
        THEN [st |-> [S1 EXCEPT !.links = {l \in @ : l.name \notin gone},
                                !.cangw = JobsWithout(@, gone)],
              status |-> "ok"]
        ELSE [st |-> S1, status |-> "Cannot find device"]

Job(src, dst, ext) == [src |-> src, dst |-> dst, ext |-> ext]

\* cangw -A -s <src> -d <dst> -e | -eX
CangwAdd(S, src, dst, ext) ==
    LET S1 == Issue(S, Cmd(IF ext THEN "cangw_add_x" ELSE "cangw_add", src, dst))
    IN  IF src \in LinkNames(S) /\ dst \in LinkNames(S)
        THEN [st |-> [S1 EXCEPT !.cangw = @ (+) SetToBag({Job(src, dst, ext)})],
              status |-> "ok"]
        ELSE [st |-> S1, status |-> "No such device"]

\* cangw -D -s <src> -d <dst> -e | -eX: the first matching job goes
CangwDel(S, src, dst, ext) ==
    LET S1 == Issue(S, Cmd(IF ext THEN "cangw_del_x" ELSE "cangw_del", src, dst))
    IN  IF BagIn(Job(src, dst, ext), S.cangw)
        THEN [st |-> [S1 EXCEPT !.cangw = @ (-) SetToBag({Job(src, dst, ext)})],
              status |-> "ok"]
        ELSE [st |-> S1, status |-> "Invalid argument"]

---------------------------------------------------------------------------
(* endpoint.rs                                                             *)

\* truncrate: the first n bytes of s, all of s when it is shorter
TruncateToByteOffset(s, n) == IF Len(s) <= n THEN s ELSE SubSeq(s, 1, n)

EndpointDevice(uid) == "vxcan" \o TruncateToByteOffset(uid, DeviceNameBytes)

EndpointPeer(uid) == EndpointDevice(uid) \o "p"

\* Endpoint::interface_exists
InterfaceExists(S, ep) == ep.device \in LinkNames(S)

\* Endpoint::new without the test of lines 128-134: the pair is always added
EndpointNew_AlwaysCreate(S, uid) ==
    LET newifc == EndpointDevice(uid)
        peerifc == newifc \o "p"
    IN  [st |-> IpLinkSetUp(IpLinkAddVxcan(S, newifc, peerifc).st, newifc).st,
         ep |-> [uid |-> uid, device |-> newifc, peer |-> peerifc, created |-> TRUE]]

\* Endpoint::new, lines 134-165, with exists as lines 122-132 found it: the
\* results of both commands are ignored.  made: whether the add command of
\* this call made the pair (the code does not look at it).
EndpointBuild(S, uid, exists) ==
    LET newifc == EndpointDevice(uid)
        peerifc == newifc \o "p"
        add == IpLinkAddVxcan(S, newifc, peerifc)
    IN  [st |-> IF exists THEN S ELSE IpLinkSetUp(add.st, newifc).st,
         ep |-> [uid |-> uid, device |-> newifc, peer |-> peerifc, created |-> ~exists],
         made |-> ~exists /\ add.status = "ok"]

\* Endpoint::new
EndpointNew(S, uid) == EndpointBuild(S, uid, EndpointDevice(uid) \in LinkNames(S))

\* ensure_interface_exists that reports Ok(false) without looking: a missing
\* pair is not made again
EnsureInterfaceExists_NoRecreate(S, ep) == [st |-> S, ep |-> ep, res |-> "present"]

\* Endpoint::ensure_interface_exists: Ok(false), Ok(true) or Err
EnsureInterfaceExists(S, ep) ==
    IF InterfaceExists(S, ep)
    THEN [st |-> S, ep |-> ep, res |-> "present"]
    ELSE LET add == IpLinkAddVxcan(S, ep.device, ep.peer)
             up == IpLinkSetUp(add.st, ep.device)
         IN  IF add.status = "File exists"
             THEN [st |-> add.st, ep |-> ep, res |-> "present"]
             ELSE IF add.status # "ok"
             THEN [st |-> add.st, ep |-> ep, res |-> "err"]
             ELSE IF up.status # "ok"
             THEN [st |-> up.st, ep |-> ep, res |-> "err"]
             ELSE [st |-> up.st, ep |-> [ep EXCEPT !.created = TRUE], res |-> "recreated"]

\* DropEndpoint without the test of line 170: the link is always deleted
DropEndpoint_Always(S, ep) ==
    IpLinkDel(IpLinkSetDown(S, ep.device).st, ep.device, "vxcan").st

\* impl Drop for Endpoint
DropEndpoint(S, ep) ==
    IF ep.created
    THEN IpLinkDel(IpLinkSetDown(S, ep.device).st, ep.device, "vxcan").st
    ELSE S

\* Dropping a HashMap<String, Endpoint>: every value is dropped.
RECURSIVE DropEndpoints(_, _)
DropEndpoints(S, eps) ==
    IF DOMAIN eps = {} THEN S
    ELSE LET u == CHOOSE x \in DOMAIN eps : TRUE
         IN  DropEndpoints(DropEndpoint(S, eps[u]), MapDel(eps, u))

---------------------------------------------------------------------------
(* network.rs                                                              *)

RspErr == [ok |-> FALSE, SrcName |-> "", DstPrefix |-> ""]

JoinResponse(src, dst) == [ok |-> TRUE, SrcName |-> src, DstPrefix |-> dst]

\* Network::new, lines 63-95, with exists as lines 53-61 found it: the
\* results of both commands are ignored.  made: whether the add command of
\* this call made the bus (the code does not look at it).
NetworkBuild(S, device, peer, canid, exists) ==
    LET newifc == device \o canid
        add == IpLinkAddVcan(S, newifc)
    IN  [st |-> IF exists THEN S ELSE IpLinkSetUp(add.st, newifc).st,
         nw |-> [device |-> device, peer |-> peer, canid |-> canid, ifc |-> newifc,
                 created |-> ~exists, endpoint_list |-> EmptyMap, rules_list |-> <<>>],
         made |-> ~exists /\ add.status = "ok"]

\* Network::new
NetworkNew(S, device, peer, canid) ==
    NetworkBuild(S, device, peer, canid, (device \o canid) \in LinkNames(S))

\* Network::network_interface_exists
NetworkInterfaceExists(S, nw) == nw.ifc \in LinkNames(S)

\* Network::ensure_network_interface_exists: X is [st, nw]; ok is Ok(()) or Err
EnsureNetworkInterfaceExists(X) ==
    IF NetworkInterfaceExists(X.st, X.nw)
    THEN [st |-> X.st, nw |-> X.nw, ok |-> TRUE]
    ELSE LET add == IpLinkAddVcan(X.st, X.nw.ifc)
             up == IpLinkSetUp(add.st, X.nw.ifc)
         IN  IF add.status = "File exists"
             THEN [st |-> add.st, nw |-> X.nw, ok |-> TRUE]
             ELSE IF add.status # "ok"
             THEN [st |-> add.st, nw |-> X.nw, ok |-> FALSE]
             ELSE IF up.status # "ok"
             THEN [st |-> up.st, nw |-> X.nw, ok |-> FALSE]
             ELSE [st |-> up.st, nw |-> [X.nw EXCEPT !.created = TRUE], ok |-> TRUE]

\* Network::validate_network_health
ValidateNetworkHealth(S, nw) ==
    /\ NetworkInterfaceExists(S, nw)
    /\ \A u \in DOMAIN nw.endpoint_list : InterfaceExists(S, nw.endpoint_list[u])

\* Network::endpoint_add: HashMap::insert drops the value it replaces
EndpointAdd(X, ep) ==
    LET old == X.nw.endpoint_list
    IN  [st |-> IF ep.uid \in DOMAIN old THEN DropEndpoint(X.st, old[ep.uid]) ELSE X.st,
         nw |-> [X.nw EXCEPT !.endpoint_list = MapPut(@, ep.uid, ep)]]

\* Network::endpoint_remove: HashMap::remove drops the value it removes
EndpointRemove(X, uid) ==
    LET old == X.nw.endpoint_list
    IN  IF uid \in DOMAIN old
        THEN [st |-> DropEndpoint(X.st, old[uid]),
              nw |-> [X.nw EXCEPT !.endpoint_list = MapDel(@, uid)]]
        ELSE X

\* Network::add_cangw_rule: both commands' results are ignored, the pair is
\* pushed (x: the value of X, taken once)
AddCangwRule(X, src, dst) ==
    CHOOSE r \in {[st |-> CangwAdd(CangwAdd(x.st, src, dst, FALSE).st, src, dst, TRUE).st,
                   nw |-> [x.nw EXCEPT !.rules_list = Append(@, <<src, dst>>)]] :
                     x \in {X}} : TRUE

Contains(seq, x) == \E i \in 1..Len(seq) : seq[i] = x

\* Vec::position: the index of the first element equal to x
Position(seq, x) == CHOOSE i \in 1..Len(seq) : seq[i] = x /\ \A j \in 1..(i - 1) : seq[j] # x

\* Vec::remove(index)
RemoveAt(seq, i) == SubSeq(seq, 1, i - 1) \o SubSeq(seq, i + 1, Len(seq))

\* Network::remove_cangw_rule (x: the value of X, taken once)
RemoveCangwRule(X, src, dst) ==
    CHOOSE r \in
        {IF Contains(x.nw.rules_list, <<src, dst>>)
         THEN [st |-> CangwDel(CangwDel(x.st, src, dst, FALSE).st, src, dst, TRUE).st,
               nw |-> [x.nw EXCEPT !.rules_list = RemoveAt(@, Position(@, <<src, dst>>))]]
         ELSE x : x \in {X}} : TRUE

\* Network::endpoint_attach, lines 265-278: the rules between ep and the other
\* endpoints whose interface exists.  others: the uids still to visit (the
\* map's iteration order is not specified; no result depends on it up to the
\* order of rules_list).
RECURSIVE AttachCrossRules(_, _, _)
AttachCrossRules(X, ep, others) ==
    IF others = {} THEN X
    ELSE LET uid == CHOOSE u \in others : TRUE
             endpt == X.nw.endpoint_list[uid]
             X1 == IF ~InterfaceExists(X.st, endpt) THEN X
                   ELSE AddCangwRule(AddCangwRule(X, endpt.device, ep.device),
                                     ep.device, endpt.device)
         IN  AttachCrossRules(X1, ep, others \ {uid})

\* AttachRules without the endpoint -> bus rule of line 263
AttachRules_NoReturnRule(X, epuid, peer) ==
    LET ep == X.nw.endpoint_list[epuid]
        X1 == AddCangwRule(X, X.nw.ifc, ep.device)
        X2 == AttachCrossRules(X1, ep, (DOMAIN X.nw.endpoint_list) \ {epuid})
        peerifc == IF peer = "" THEN X.nw.peer ELSE peer
    IN  [st |-> X2.st, nw |-> X2.nw, rsp |-> JoinResponse(ep.peer, peerifc)]

\* AttachRules that refuses an endpoint whose bus rule is already in the list
AttachRules_RefuseAttached(X, epuid, peer) ==
    LET ep == X.nw.endpoint_list[epuid]
    IN  IF Contains(X.nw.rules_list, <<X.nw.ifc, ep.device>>)
        THEN [st |-> X.st, nw |-> X.nw, rsp |-> RspErr]
        ELSE AttachRules_NoReturnRule(
                 AddCangwRule(X, ep.device, X.nw.ifc), epuid, peer)

\* Network::endpoint_attach, lines 257-292: the rule weaving and the response
AttachRules(X, epuid, peer) ==
    LET ep == X.nw.endpoint_list[epuid]
        X1 == AddCangwRule(AddCangwRule(X, X.nw.ifc, ep.device), ep.device, X.nw.ifc)
        X2 == AttachCrossRules(X1, ep, (DOMAIN X.nw.endpoint_list) \ {epuid})
        peerifc == IF peer = "" THEN X.nw.peer ELSE peer
    IN  [st |-> X2.st, nw |-> X2.nw, rsp |-> JoinResponse(ep.peer, peerifc)]

\* Network::endpoint_attach with the bus rule of line 262 installed ahead of
\* the lookup of lines 228-236: an unknown endpoint fails after the rule
NetEndpointAttach_RuleFirst(X, epuid, peer) ==
    LET X1 == AddCangwRule(X, X.nw.ifc, EndpointDevice(epuid))
    IN  IF epuid \notin DOMAIN X.nw.endpoint_list
        THEN [st |-> X1.st, nw |-> X1.nw, rsp |-> RspErr]
        ELSE AttachRules(X, epuid, peer)

\* Network::endpoint_attach
NetEndpointAttach(X, epuid, peer) ==
    LET E1 == EnsureNetworkInterfaceExists(X)
    IN  IF ~E1.ok
        THEN [st |-> E1.st, nw |-> E1.nw, rsp |-> RspErr]
        ELSE IF epuid \notin DOMAIN E1.nw.endpoint_list
        THEN [st |-> E1.st, nw |-> E1.nw, rsp |-> RspErr]
        ELSE LET E2 == EnsureInterfaceExists(E1.st, E1.nw.endpoint_list[epuid])
                 nw2 == [E1.nw EXCEPT !.endpoint_list[epuid] = E2.ep]
             IN  IF E2.res = "err"
                 THEN [st |-> E2.st, nw |-> nw2, rsp |-> RspErr]
                 ELSE AttachRules([st |-> E2.st, nw |-> nw2], epuid, peer)

\* Network::endpoint_detach, lines 299-305
RECURSIVE DetachCrossRules(_, _, _)
DetachCrossRules(X, ep, others) ==
    IF others = {} THEN X
    ELSE LET uid == CHOOSE u \in others : TRUE
             endpt == X.nw.endpoint_list[uid]
             X1 == RemoveCangwRule(RemoveCangwRule(X, endpt.device, ep.device),
                                   ep.device, endpt.device)
         IN  DetachCrossRules(X1, ep, others \ {uid})

\* Network::endpoint_detach
NetEndpointDetach(X, epuid) ==
    IF epuid \notin DOMAIN X.nw.endpoint_list THEN X
    ELSE LET ep == X.nw.endpoint_list[epuid]
             X1 == DetachCrossRules(X, ep, (DOMAIN X.nw.endpoint_list) \ {epuid})
         IN  RemoveCangwRule(RemoveCangwRule(X1, ep.device, X.nw.ifc), X.nw.ifc, ep.device)

\* impl Drop for Network, then the drop of its fields (the endpoints)
DropNetwork(S, nw) ==
    LET ifc == nw.device \o nw.canid
        S1 == IF nw.created
              THEN IpLinkDel(IpLinkSetDown(S, ifc).st, ifc, "vcan").st
              ELSE S
    IN  DropEndpoints(S1, nw.endpoint_list)

---------------------------------------------------------------------------
(* manager.rs                                                              *)

\* NetworkConfig
NetworkConfig(device, peer, canid) == [device |-> device, peer |-> peer, canid |-> canid]

\* The persistence file: absent, present but not parsable, or a JSON map of
\* NetworkConfig by network id (serde_json writes and reads back the same map).
FileAbsent == [state |-> "absent", configs |-> EmptyMap]

FileCorrupt == [state |-> "corrupt", configs |-> EmptyMap]

FileOk(configs) == [state |-> "ok", configs |-> configs]

\* manager.rs:178-181 and 208-211: read_to_string, from_str, unwrap_or_default
ReadConfigsOrDefault(f) == IF f.state = "ok" THEN f.configs ELSE EmptyMap

\* v[key].as_str(), or the default when the key is missing or not a string
OptionStr(v, key, default) ==
    IF key \in DOMAIN v.obj /\ v.obj[key].str THEN v.obj[key].s ELSE default

\* NetworkManager::options_parse
OptionsParse(options) ==
    IF options.json
    THEN [ok |-> TRUE,
          device |-> OptionStr(options, "vxcan.dev", "vcan"),
          peer |-> OptionStr(options, "vxcan.peer", "vcanp"),
          canid |-> OptionStr(options, "vxcan.id", "0")]
    ELSE [ok |-> FALSE, device |-> "", peer |-> "", canid |-> ""]

\* network_list.write().insert(nuid, nw): the Network it replaces is dropped
InsertNetwork(S, nuid, nw) ==
    LET S1 == [S EXCEPT !.network_list = MapPut(@, nuid, nw)]
    IN  IF nuid \in DOMAIN S.network_list
        THEN DropNetwork(S1, S.network_list[nuid])
        ELSE S1

\* NetworkManager::load_networks_from_file; order: the order in which the
\* HashMap read from the file is iterated
RECURSIVE LoadConfigs(_, _, _)
LoadConfigs(S, configs, order) ==
    IF order = <<>> THEN S
    ELSE LET nuid == Head(order)
             config == configs[nuid]
             N == NetworkNew(S, config.device, config.peer, config.canid)
         IN  LoadConfigs(InsertNetwork(N.st, nuid, N.nw), configs, Tail(order))

\* load_networks_from_file that never reads the file
LoadNetworksFromFile_Skip(S, order) == S

LoadNetworksFromFile(S, order) ==
    IF S.file.state = "ok" THEN LoadConfigs(S, S.file.configs, order) ELSE S

\* NetworkManager::new in a process that starts on what the last one left: the
\* kernel and the file are kept, the map starts empty (no destructor has run)
ManagerNew(S, order) ==
    LoadNetworksFromFile([S EXCEPT !.network_list = EmptyMap], order)

\* An engine network as list_networks returns it: options is None or Some(map)
EngineNetwork(id, driver, some, options) ==
    [id |-> id, driver |-> driver, some |-> some, options |-> options]

EngineOption(n, key, default) ==
    IF key \in DOMAIN n.options THEN n.options[key] ELSE default

\* NetworkManager::network_load, lines 118-144
RECURSIVE LoadEngineNetworks(_, _)
LoadEngineNetworks(S, networks) ==
    IF networks = <<>> THEN S
    ELSE LET n == Head(networks)
             N == NetworkNew(S, EngineOption(n, "vxcan.dev", "vcan"),
                                EngineOption(n, "vxcan.peer", "vcan"),
                                EngineOption(n, "vxcan.id", "0"))
             S1 == IF n.some /\ n.driver = "rustyvxcan"
                   THEN InsertNetwork(N.st, n.id, N.nw)
                   ELSE S
         IN  LoadEngineNetworks(S1, Tail(networks))

\* NetworkManager::network_load; networks: what the engine lists
NetworkLoad(S, networks) ==
    IF S.file.state = "absent" THEN S ELSE LoadEngineNetworks(S, networks)

\* fs::write(NETWORK_STATE_FILE, json) of lines 189 and 216
WriteConfigs(S, configs) == [S EXCEPT !.file = FileOk(configs)]

\* NetworkManager::persist_network_config
PersistNetworkConfig(S, nuid, device, peer, canid) ==
    WriteConfigs(S, MapPut(ReadConfigsOrDefault(S.file), nuid,
                           NetworkConfig(device, peer, canid)))

\* What network_create hands back to its caller: the function has no return
\* type and line 166 absorbs the Err of options_parse
NetworkCreateReturns(options) == "()"

\* NetworkManager::network_create: the state it leaves
NetworkCreate(S, uid, options) ==
    LET o == OptionsParse(options)
        N == NetworkNew(S, o.device, o.peer, o.canid)
    IN  IF o.ok
        THEN PersistNetworkConfig(InsertNetwork(N.st, uid, N.nw), uid,
                                  o.device, o.peer, o.canid)
        ELSE S

\* NetworkManager::network_delete, lines 200-205: map.remove drops the Network
RemoveNetwork(S, uid) ==
    IF uid \in DOMAIN S.network_list
    THEN DropNetwork([S EXCEPT !.network_list = MapDel(@, uid)], S.network_list[uid])
    ELSE S

\* NetworkManager::network_delete
NetworkDelete(S, uid) ==
    LET S1 == RemoveNetwork(S, uid)
    IN  WriteConfigs(S1, MapDel(ReadConfigsOrDefault(S1.file), uid))

\* The state with network nuid replaced by the Network of X = [st, nw]
WithNetwork(X, nuid) == [X.st EXCEPT !.network_list = MapPut(@, nuid, X.nw)]

OfNetwork(S, nuid) == [st |-> S, nw |-> S.network_list[nuid]]

\* endpoint_create whose Endpoint is never dropped: for an unknown network the
\* pair it made stays in the kernel
EndpointCreate_Leak(S, nuid, epuid) ==
    LET E == EndpointNew(S, epuid)
    IN  IF nuid \in DOMAIN S.network_list
        THEN WithNetwork(EndpointAdd(OfNetwork(E.st, nuid), E.ep), nuid)
        ELSE E.st

\* NetworkManager::endpoint_create: the Endpoint is built before the lookup and
\* dropped when the network is not there
EndpointCreate(S, nuid, epuid) ==
    LET E == EndpointNew(S, epuid)
    IN  IF nuid \in DOMAIN S.network_list
        THEN WithNetwork(EndpointAdd(OfNetwork(E.st, nuid), E.ep), nuid)
        ELSE DropEndpoint(E.st, E.ep)

\* NetworkManager::endpoint_delete
EndpointDelete(S, nuid, epuid) ==
    IF nuid \in DOMAIN S.network_list
    THEN WithNetwork(EndpointRemove(OfNetwork(S, nuid), epuid), nuid)
    ELSE S

\* NetworkManager::endpoint_attach, lines 266-331: the network is loaded from
\* the file when it is not in the map
RecoverNetwork(S, nuid) ==
    IF nuid \in DOMAIN S.network_list
    THEN [st |-> S, ok |-> TRUE]
    ELSE IF S.file.state = "ok" /\ nuid \in DOMAIN S.file.configs
    THEN LET config == S.file.configs[nuid]
             N == NetworkNew(S, config.device, config.peer, config.canid)
         IN  [st |-> InsertNetwork(N.st, nuid, N.nw), ok |-> TRUE]
    ELSE [st |-> S, ok |-> FALSE]

\* endpoint_attach without lines 357-388: a missing endpoint stays missing
RecoverEndpoint_None(S, nuid, epuid) == S

\* NetworkManager::endpoint_attach, lines 344-388: the endpoint is built again
\* when it is not in the network
RecoverEndpoint(S, nuid, epuid) ==
    IF epuid \in DOMAIN S.network_list[nuid].endpoint_list
    THEN S
    ELSE LET E == EndpointNew(S, epuid)
         IN  WithNetwork(EndpointAdd(OfNetwork(E.st, nuid), E.ep), nuid)

\* lines 395-401 without the option: the peer is always the empty string
AttachPeerOption_Ignored(options) == ""

\* NetworkManager::endpoint_attach, lines 395-401
AttachPeerOption(options) ==
    IF options.json THEN OptionStr(options, "vxcan.peer", "") ELSE ""

\* endpoint_attach that goes from the network lookup of line 335 straight to
\* the attach of line 392
EndpointAttach_NoEndpointRecovery(S, nuid, epuid, options) ==
    LET R == RecoverNetwork(S, nuid)
    IN  IF ~R.ok THEN [st |-> S, rsp |-> RspErr]
        ELSE LET A == NetEndpointAttach(OfNetwork(R.st, nuid), epuid,
                                        AttachPeerOption(options))
             IN  [st |-> WithNetwork(A, nuid), rsp |-> A.rsp]

\* NetworkManager::endpoint_attach
EndpointAttach(S, nuid, epuid, options) ==
    LET R == RecoverNetwork(S, nuid)
    IN  IF ~R.ok THEN [st |-> S, rsp |-> RspErr]
        ELSE LET S1 == RecoverEndpoint(R.st, nuid, epuid)
                 A == NetEndpointAttach(OfNetwork(S1, nuid), epuid,
                                        AttachPeerOption(options))
             IN  [st |-> WithNetwork(A, nuid), rsp |-> A.rsp]

\* NetworkManager::endpoint_detach
EndpointDetach(S, nuid, epuid) ==
    IF nuid \in DOMAIN S.network_list
    THEN WithNetwork(NetEndpointDetach(OfNetwork(S, nuid), epuid), nuid)
    ELSE S

---------------------------------------------------------------------------
(* Threads, their calls and locals, and the locks                          *)

NoNetwork ==
    [device |-> "", peer |-> "", canid |-> "", ifc |-> "", created |-> FALSE,
     endpoint_list |-> EmptyMap, rules_list |-> <<>>]

NoEndpoint == [uid |-> "", device |-> "", peer |-> "", created |-> FALSE]

\* A thread that runs no call
NoCall == [op |-> "", nuid |-> "", epuid |-> "", options |-> NotJson, networks |-> <<>>]

\* The locals of a call: network_exists / endpoint_exists / still_missing /
\* exists, the config and the configs read from the file, the Network or
\* Endpoint built and not yet inserted, the engine's networks still to visit;
\* and made: whether the add command of the object built last made its link
NoLoc ==
    [exists |-> FALSE, config |-> NetworkConfig("", "", ""), configs |-> EmptyMap,
     nw |-> NoNetwork, ep |-> NoEndpoint, todo |-> <<>>, made |-> FALSE]

\* The calls threads make: two networks, two endpoints on the first
ConcCalls ==
    { [NoCall EXCEPT !.op = "network_create", !.nuid = "N1",
                     !.options = Json([k \in {"vxcan.id"} |-> JStr("0")])],
      [NoCall EXCEPT !.op = "network_create", !.nuid = "N2",
                     !.options = Json([k \in {"vxcan.id"} |-> JStr("1")])],
      [NoCall EXCEPT !.op = "network_delete", !.nuid = "N1"],
      [NoCall EXCEPT !.op = "network_load",
                     !.networks = <<EngineNetwork("N2", "bridge", TRUE, EmptyMap),
                                    EngineNetwork("N1", "rustyvxcan", TRUE, EmptyMap)>>],
      [NoCall EXCEPT !.op = "endpoint_create", !.nuid = "N1", !.epuid = "AAAAAAAAAA"],
      [NoCall EXCEPT !.op = "endpoint_delete", !.nuid = "N1", !.epuid = "AAAAAAAAAA"],
      [NoCall EXCEPT !.op = "endpoint_attach", !.nuid = "N1", !.epuid = "AAAAAAAAAA",
                     !.options = Json(EmptyMap)],
      [NoCall EXCEPT !.op = "endpoint_attach", !.nuid = "N1", !.epuid = "BBBBBBBBBB",
                     !.options = Json(EmptyMap)],
      [NoCall EXCEPT !.op = "endpoint_detach", !.nuid = "N1", !.epuid = "AAAAAAAAAA"] }

\* A bound on the runs: the second endpoint is used only in runs made of
\* endpoint_attach and endpoint_detach calls, so call c may start when it is
\* such a call of a run that has had no other, or when no call has named the
\* second endpoint
SecondEndpointApart(c) ==
    IF c.op \in {"endpoint_attach", "endpoint_detach"}
    THEN c.epuid = "BBBBBBBBBB" => hist.pure
    ELSE /\ \A t \in Threads : call[t].epuid # "BBBBBBBBBB"
         /\ \A i \in 1..Len(hist.done) : hist.done[i].call.epuid # "BBBBBBBBBB"

\* A bound on the runs: the second network is used only in runs made of
\* network_create calls, so a network_create of N2 may start as the first call
\* of a thread while the other thread has made no call or is in a
\* network_create that was its first, and once N2 is named by a call, the map
\* or the file, only network_create calls start
SecondNetworkApart(c) ==
    IF c.op = "network_create"
    THEN c.nuid = "N2" =>
            \A t \in Threads :
                calls[t] = 0 \/ (calls[t] = 1 /\ call[t].op = "network_create")
    ELSE /\ "N2" \notin DOMAIN network_list
         /\ "N2" \notin DOMAIN ReadConfigsOrDefault(file)
         /\ \A t \in Threads : call[t].nuid # "N2"

\* The first line of each call
Entry(op) ==
    CASE op = "network_create" -> "create_158"
      [] op = "network_delete" -> "delete_200"
      [] op = "network_load" -> "load_104"
      [] op = "endpoint_create" -> "epcreate_222"
      [] op = "endpoint_delete" -> "epdelete_237"
      [] op = "endpoint_attach" -> "attach_267"
      [] op = "endpoint_detach" -> "detach_418"

\* A guard: load_mutex and network_list are the Manager's, endpoint_list and
\* rules_list are those of the Network of nuid
Guard(lock, nuid, mode) == [lock |-> lock, nuid |-> nuid, mode |-> mode]

NoGuard == Guard("", "", "")

\* The order the locks are to be taken in
Rank(lock) ==
    CASE lock = "load_mutex" -> 1
      [] lock = "network_list" -> 2
      [] lock = "endpoint_list" -> 3
      [] lock = "rules_list" -> 4

\* The lock the statement at line p of a call on network nuid acquires
WantsAt(p, nuid) ==
    CASE p = "attach_275" -> Guard("load_mutex", "", "w")
      [] p \in {"attach_267", "attach_279", "attach_334"}
            -> Guard("network_list", "", "r")
      [] p \in {"attach_303", "attach_361", "attach_392", "create_161", "delete_200",
                "load_139", "epcreate_225", "epdelete_237", "detach_418"}
            -> Guard("network_list", "", "w")
      [] p \in {"attach_348", "attach_373", "nwattach_229", "nwattach_258", "nwdetach_296"}
            -> Guard("endpoint_list", nuid, "r")
      [] p \in {"attach_380", "nwattach_241", "epcreate_229", "epdelete_241"}
            -> Guard("endpoint_list", nuid, "w")
      [] p \in {"nwattach_262", "nwdetach_302"}
            -> Guard("rules_list", nuid, "w")
      [] OTHER -> NoGuard

Wants(t) == WantsAt(pc[t], call[t].nuid)

\* The guards of lock (lock, nuid) that are held, by any thread
GuardsOn(lock, nuid) ==
    {g \in UNION {{held[u][i] : i \in 1..Len(held[u])} : u \in Threads} :
        g.lock = lock /\ g.nuid = nuid}

\* parking_lot: a reader waits for the writer, a writer or a mutex for everyone
Acquirable(g) ==
    \/ g = NoGuard
    \/ g.mode = "r" /\ \A h \in GuardsOn(g.lock, g.nuid) : h.mode = "r"
    \/ g.mode = "w" /\ GuardsOn(g.lock, g.nuid) = {}

\* Thread t is at line p and the lock of that line, if any, can be taken
At(t, p) == pc[t] = p /\ Acquirable(Wants(t))

\* manager.rs 280, the re-check under load_mutex
StillMissing_NoRecheck(map, nuid) == TRUE

StillMissing(map, nuid) == nuid \notin DOMAIN map

\* manager.rs 353 left out: the read guard of the map is kept
AfterEndpointLookup_KeepMap(h) == h

\* manager.rs 353, drop(map): the guards left of those a thread held at 348
AfterEndpointLookup(h) == SubSeq(h, 1, Len(h) - 1)

---------------------------------------------------------------------------
(* The driver under sequential calls: every action is one whole call.      *)

\* The orders in which a HashMap with the keys of set may be iterated
Orders(set) ==
    {o \in [1..Cardinality(set) -> set] : \A i, j \in DOMAIN o : i # j => o[i] # o[j]}

\* What the engine may list on network_load: nothing, a network of this
\* driver, a network without options, a network of another driver
EngineLists ==
    { <<>>,
      <<EngineNetwork("N1", "rustyvxcan", TRUE, EmptyMap)>>,
      <<EngineNetwork("N2", "rustyvxcan", FALSE, EmptyMap)>>,
      <<EngineNetwork("N2", "bridge", TRUE, EmptyMap),
        EngineNetwork("N1", "rustyvxcan", TRUE, EmptyMap)>> }

\* What a starting process may find in the file; the kernel has no CAN link
InitFiles ==
    { FileAbsent, FileCorrupt,
      FileOk([k \in {"N1"} |-> NetworkConfig("vcan", "vcanp", "0")]) }

\* The state the running operation starts from: its log is empty
Cur ==
    [network_list |-> network_list, links |-> links, cangw |-> cangw,
     file |-> file, log |-> <<>>]

RuleSet(nw) == {nw.rules_list[i] : i \in 1..Len(nw.rules_list)}

\* The record of an operation: its name and arguments
Last(op, nuid, epuid) ==
    [op |-> op, nuid |-> nuid, epuid |-> epuid, options |-> NotJson, rsp |-> RspErr,
     log |-> <<>>, after_new |-> FALSE, pre_rules |-> <<>>, pre_net |-> FALSE,
     pre_ep |-> FALSE, pre_dev |-> FALSE, dropped |-> {}]

\* The objects that network_delete(nuid) (epuid empty) or endpoint_delete(nuid,
\* epuid) destroys in state S: for each its interface, its created flag and
\* whether the kernel had the interface before the call
Dropped(S, nuid, epuid) ==
    IF nuid \notin DOMAIN S.network_list THEN {}
    ELSE LET nw == S.network_list[nuid]
             eps == IF epuid = "" THEN DOMAIN nw.endpoint_list
                    ELSE {epuid} \cap DOMAIN nw.endpoint_list
         IN  {[ifc |-> nw.endpoint_list[e].device, created |-> nw.endpoint_list[e].created,
               before |-> nw.endpoint_list[e].device \in LinkNames(S)] : e \in eps}
             \cup (IF epuid # "" THEN {}
                   ELSE {[ifc |-> nw.ifc, created |-> nw.created,
                          before |-> nw.ifc \in LinkNames(S)]})

\* The record of an endpoint_attach from state S with result r: its arguments,
\* its response, the commands it spawned, and what it found: whether it is the
\* first call of a process just started, the rules of the network, whether
\* the map or the file knew the network, whether the network held the
\* endpoint, whether the kernel had the endpoint's device
LastAttach(S, nuid, epuid, options, r) ==
    LET known == nuid \in DOMAIN S.network_list
    IN  [op |-> "endpoint_attach", nuid |-> nuid, epuid |-> epuid, options |-> options,
         rsp |-> r.rsp, log |-> r.st.log, after_new |-> last.op = "new",
         pre_rules |-> IF known THEN S.network_list[nuid].rules_list ELSE <<>>,
         pre_net |-> known \/ nuid \in DOMAIN ReadConfigsOrDefault(S.file),
         pre_ep |-> known /\ epuid \in DOMAIN S.network_list[nuid].endpoint_list,
         pre_dev |-> EndpointDevice(epuid) \in LinkNames(S), dropped |-> {}]

Becomes(S, l) ==
    /\ ops < MaxOps
    /\ ops' = ops + 1
    /\ UNCHANGED cvars
    /\ network_list' = S.network_list
    /\ links' = S.links
    /\ cangw' = S.cangw
    /\ file' = S.file
    /\ last' = l

Init ==
    \E f \in InitFiles :
        \E order \in Orders(DOMAIN f.configs) :
            LET S0 == [network_list |-> EmptyMap, links |-> {}, cangw |-> EmptyBag,
                       file |-> f, log |-> <<>>]
                S == ManagerNew(S0, order)
            IN  /\ network_list = S.network_list
                /\ links = S.links
                /\ cangw = S.cangw
                /\ file = S.file
                /\ last = Last("new", "", "")
                /\ ops = 0
                /\ pc = [t \in Threads |-> "idle"]
                /\ call = [t \in Threads |-> NoCall]
                /\ loc = [t \in Threads |-> NoLoc]
                /\ held = [t \in Threads |-> <<>>]
                /\ calls = [t \in Threads |-> 0]
                /\ recoveries = [n \in NetIds |-> 0]
                /\ hist = [pure |-> TRUE, base |-> S, done |-> <<>>]

\* The process is killed and started again: NetworkManager::new
Restart ==
    \E order \in Orders(DOMAIN ReadConfigsOrDefault(file)) :
        Becomes(ManagerNew(Cur, order), Last("new", "", ""))

DoNetworkLoad ==
    \E networks \in EngineLists :
        Becomes(NetworkLoad(Cur, networks), Last("network_load", "", ""))

DoNetworkCreate ==
    \E c \in NetworkCreateCalls :
        Becomes(NetworkCreate(Cur, c[1], c[2]),
                [Last("network_create", c[1], "") EXCEPT !.options = c[2]])

DoNetworkDelete ==
    \E uid \in NetIds :
        Becomes(NetworkDelete(Cur, uid),
                [Last("network_delete", uid, "") EXCEPT !.dropped = Dropped(Cur, uid, "")])

DoEndpointCreate ==
    \E c \in EndpointCalls :
        Becomes(EndpointCreate(Cur, c[1], c[2]), Last("endpoint_create", c[1], c[2]))

DoEndpointDelete ==
    \E c \in EndpointCalls :
        Becomes(EndpointDelete(Cur, c[1], c[2]),
                [Last("endpoint_delete", c[1], c[2]) EXCEPT
                    !.dropped = Dropped(Cur, c[1], c[2])])

DoEndpointAttach ==
    \E c \in AttachCalls :
        LET r == EndpointAttach(Cur, c[1], c[2], c[3])
        IN  Becomes(r.st, LastAttach(Cur, c[1], c[2], c[3], r))

DoEndpointDetach ==
    \E c \in EndpointCalls :
        LET S == EndpointDetach(Cur, c[1], c[2])
        IN  Becomes(S, [Last("endpoint_detach", c[1], c[2]) EXCEPT !.log = S.log])

Next ==
    \/ Restart
    \/ DoNetworkLoad
    \/ DoNetworkCreate
    \/ DoNetworkDelete
    \/ DoEndpointCreate
    \/ DoEndpointDelete
    \/ DoEndpointAttach
    \/ DoEndpointDetach

Spec == Init /\ [][Next]_vars

---------------------------------------------------------------------------
(* The driver under concurrent calls: every action is one statement of a   *)
(* call, or a run of statements that touches one shared object.  A guard   *)
(* stays in held from the statement that takes it to the one that drops    *)
(* it; a statement that takes a lock, uses it and drops it is one action.  *)

Shared(S) ==
    /\ network_list' = S.network_list
    /\ links' = S.links
    /\ cangw' = S.cangw
    /\ file' = S.file

\* Thread t goes on to line p with locals l, guards h and recovery counts r
Step(t, p, l, h, r) ==
    /\ pc' = [pc EXCEPT ![t] = p]
    /\ loc' = [loc EXCEPT ![t] = l]
    /\ held' = [held EXCEPT ![t] = h]
    /\ recoveries' = r
    /\ UNCHANGED <<call, calls, last, ops, hist>>

Go(t, p, l, h) == Step(t, p, l, h, recoveries)

\* The call of thread t returns rsp, keeping the guards h
ReturnRsp(t, h, rsp) ==
    /\ pc' = [pc EXCEPT ![t] = "idle"]
    /\ call' = [call EXCEPT ![t] = NoCall]
    /\ loc' = [loc EXCEPT ![t] = NoLoc]
    /\ held' = [held EXCEPT ![t] = h]
    /\ hist' = IF hist.pure
               THEN [hist EXCEPT !.done = Append(@, [call |-> call[t], rsp |-> rsp])]
               ELSE hist
    /\ UNCHANGED <<calls, recoveries, last, ops>>

\* The call of thread t returns an error or the unit value
Return(t, h) == ReturnRsp(t, h, RspErr)

\* Released that drops nothing: the guard stays with the thread
Released_Kept(h) == h

\* drop of the guard taken last
Released(h) == SubSeq(h, 1, Len(h) - 1)

Start(t) ==
    /\ pc[t] = "idle"
    /\ calls[t] < MaxCalls
    /\ \E c \in ConcCalls :
          /\ SecondEndpointApart(c)
          /\ SecondNetworkApart(c)
          /\ pc' = [pc EXCEPT ![t] = Entry(c.op)]
          /\ call' = [call EXCEPT ![t] = c]
          /\ hist' = IF c.op \in {"endpoint_attach", "endpoint_detach"} THEN hist
                     ELSE [pure |-> FALSE, base |-> <<>>, done |-> <<>>]
    /\ calls' = [calls EXCEPT ![t] = @ + 1]
    /\ UNCHANGED <<network_list, links, cangw, file, last, ops, loc, held, recoveries>>

\* endpoint_attach 266-269: network_exists
Attach267(t) ==
    /\ At(t, "attach_267")
    /\ LET e == call[t].nuid \in DOMAIN network_list
       IN  Go(t, IF e THEN "attach_334" ELSE "attach_275",
              [loc[t] EXCEPT !.exists = e], held[t])
    /\ Shared(Cur)

\* endpoint_attach 275: load_mutex.lock()
Attach275(t) ==
    /\ At(t, "attach_275")
    /\ Go(t, "attach_279", loc[t], Append(held[t], Wants(t)))
    /\ Shared(Cur)

\* endpoint_attach 279-285: the re-check; 283 drops the load guard
Attach279(t) ==
    /\ At(t, "attach_279")
    /\ IF StillMissing(network_list, call[t].nuid)
       THEN Go(t, "attach_288", loc[t], held[t])
       ELSE Go(t, "attach_334", loc[t], Released(held[t]))
    /\ Shared(Cur)

\* endpoint_attach 288-292 and 308-325: the file is read; every failure drops
\* the load guard and returns Err
Attach288(t) ==
    /\ At(t, "attach_288")
    /\ IF file.state = "ok" /\ call[t].nuid \in DOMAIN file.configs
       THEN Go(t, "attach_297", [loc[t] EXCEPT !.config = file.configs[call[t].nuid]],
               held[t])
       ELSE Return(t, Released(held[t]))
    /\ Shared(Cur)

\* endpoint_attach 297, Network::new 53-61: the links are listed
Attach297(t) ==
    /\ At(t, "attach_297")
    /\ Go(t, "attach_297_build",
          [loc[t] EXCEPT !.exists = (loc[t].config.device \o loc[t].config.canid)
                                       \in LinkNames(Cur)], held[t])
    /\ Shared(Cur)

\* endpoint_attach 297-301, Network::new 63-95
Attach297Build(t) ==
    /\ At(t, "attach_297_build")
    /\ LET N == NetworkBuild(Cur, loc[t].config.device, loc[t].config.peer,
                             loc[t].config.canid, loc[t].exists)
       IN  /\ Shared(N.st)
           /\ Go(t, "attach_303", [loc[t] EXCEPT !.nw = N.nw, !.made = N.made], held[t])

\* endpoint_attach 303-305 and 328: the insert, then the load guard is dropped
Attach303(t) ==
    /\ At(t, "attach_303")
    /\ Shared(InsertNetwork(Cur, call[t].nuid, loc[t].nw))
    /\ Step(t, "attach_334", [loc[t] EXCEPT !.nw = NoNetwork], Released(held[t]),
            [recoveries EXCEPT ![call[t].nuid] = @ + 1])

\* endpoint_attach 334-342: the read guard is kept when the network is found
Attach334(t) ==
    /\ At(t, "attach_334")
    /\ IF call[t].nuid \in DOMAIN network_list
       THEN Go(t, "attach_348", loc[t], Append(held[t], Wants(t)))
       ELSE Return(t, held[t])
    /\ Shared(Cur)

\* endpoint_attach 347-353: endpoint_exists, then drop(map)
Attach348(t) ==
    /\ At(t, "attach_348")
    /\ LET e == call[t].epuid \in DOMAIN network_list[call[t].nuid].endpoint_list
       IN  Go(t, IF e THEN "attach_392" ELSE "attach_361",
              [loc[t] EXCEPT !.exists = e], AfterEndpointLookup(held[t]))
    /\ Shared(Cur)

\* endpoint_attach 361-369
Attach361(t) ==
    /\ At(t, "attach_361")
    /\ IF call[t].nuid \in DOMAIN network_list
       THEN Go(t, "attach_373", loc[t], Append(held[t], Wants(t)))
       ELSE Return(t, held[t])
    /\ Shared(Cur)

\* lines 372-377 without the re-check: the endpoint is built in any case
Attach373_NoRecheck(t) ==
    /\ At(t, "attach_373")
    /\ Go(t, "attach_379", loc[t], held[t])
    /\ Shared(Cur)

\* endpoint_attach 372-377 and 382-387: still_missing
Attach373(t) ==
    /\ At(t, "attach_373")
    /\ IF call[t].epuid \notin DOMAIN network_list[call[t].nuid].endpoint_list
       THEN Go(t, "attach_379", loc[t], held[t])
       ELSE Go(t, "attach_392", loc[t], Released(held[t]))
    /\ Shared(Cur)

\* endpoint_attach 379, Endpoint::new 122-132: the links are listed
Attach379(t) ==
    /\ At(t, "attach_379")
    /\ Go(t, "attach_379_build",
          [loc[t] EXCEPT !.exists = EndpointDevice(call[t].epuid) \in LinkNames(Cur)],
          held[t])
    /\ Shared(Cur)

\* endpoint_attach 379, Endpoint::new 134-165
Attach379Build(t) ==
    /\ At(t, "attach_379_build")
    /\ LET E == EndpointBuild(Cur, call[t].epuid, loc[t].exists)
       IN  /\ Shared(E.st)
           /\ Go(t, "attach_380", [loc[t] EXCEPT !.ep = E.ep, !.made = E.made], held[t])

\* endpoint_attach 380-387: endpoint_add, then drop(map_write)
Attach380(t) ==
    /\ At(t, "attach_380")
    /\ Shared(WithNetwork(EndpointAdd(OfNetwork(Cur, call[t].nuid), loc[t].ep),
                          call[t].nuid))
    /\ Go(t, "attach_392", [loc[t] EXCEPT !.ep = NoEndpoint], Released(held[t]))

\* endpoint_attach 392-412 and Network::endpoint_attach 222-225
Attach392(t) ==
    /\ At(t, "attach_392")
    /\ IF call[t].nuid \notin DOMAIN network_list
       THEN Shared(Cur) /\ Return(t, held[t])
       ELSE LET E1 == EnsureNetworkInterfaceExists(OfNetwork(Cur, call[t].nuid))
            IN  /\ Shared(WithNetwork(E1, call[t].nuid))
                /\ IF E1.ok
                   THEN Go(t, "nwattach_229", loc[t], Append(held[t], Wants(t)))
                   ELSE Return(t, held[t])

\* Network::endpoint_attach 228-236
NwAttach229(t) ==
    /\ At(t, "nwattach_229")
    /\ IF call[t].epuid \in DOMAIN network_list[call[t].nuid].endpoint_list
       THEN Go(t, "nwattach_241", loc[t], held[t])
       ELSE Return(t, Released(held[t]))
    /\ Shared(Cur)

\* Network::endpoint_attach 240-255
NwAttach241(t) ==
    /\ At(t, "nwattach_241")
    /\ LET nw == network_list[call[t].nuid]
           E2 == EnsureInterfaceExists(Cur, nw.endpoint_list[call[t].epuid])
           nw2 == [nw EXCEPT !.endpoint_list[call[t].epuid] = E2.ep]
       IN  /\ Shared(WithNetwork([st |-> E2.st, nw |-> nw2], call[t].nuid))
           /\ IF E2.res = "err"
              THEN Return(t, Released(held[t]))
              ELSE Go(t, "nwattach_258", loc[t], held[t])

\* Network::endpoint_attach 258-259 and 291: the read guard is kept
NwAttach258(t) ==
    /\ At(t, "nwattach_258")
    /\ IF call[t].epuid \in DOMAIN network_list[call[t].nuid].endpoint_list
       THEN Go(t, "nwattach_262", loc[t], Append(held[t], Wants(t)))
       ELSE Return(t, Released(held[t]))
    /\ Shared(Cur)

\* Network::endpoint_attach 262-289: every add_cangw_rule takes and drops the
\* rules guard; the return drops the endpoint guard and the map guard
NwAttach262(t) ==
    /\ At(t, "nwattach_262")
    /\ LET A == AttachRules(OfNetwork(Cur, call[t].nuid), call[t].epuid,
                            AttachPeerOption(call[t].options))
       IN  /\ Shared(WithNetwork(A, call[t].nuid))
           /\ ReturnRsp(t, Released(Released(held[t])), A.rsp)

\* endpoint_detach 418-425
Detach418(t) ==
    /\ At(t, "detach_418")
    /\ IF call[t].nuid \in DOMAIN network_list
       THEN Go(t, "nwdetach_296", loc[t], Append(held[t], Wants(t)))
       ELSE Return(t, held[t])
    /\ Shared(Cur)

\* Network::endpoint_detach 296-297 and 311
NwDetach296(t) ==
    /\ At(t, "nwdetach_296")
    /\ IF call[t].epuid \in DOMAIN network_list[call[t].nuid].endpoint_list
       THEN Go(t, "nwdetach_302", loc[t], Append(held[t], Wants(t)))
       ELSE Return(t, Released(held[t]))
    /\ Shared(Cur)

\* Network::endpoint_detach 299-309: every remove_cangw_rule takes and drops
\* the rules guard
NwDetach302(t) ==
    /\ At(t, "nwdetach_302")
    /\ Shared(WithNetwork(NetEndpointDetach(OfNetwork(Cur, call[t].nuid), call[t].epuid),
                          call[t].nuid))
    /\ Return(t, Released(Released(held[t])))

\* endpoint_create 222, before any lock, Endpoint::new 122-132: the links
\* are listed
EpCreate222(t) ==
    /\ At(t, "epcreate_222")
    /\ Go(t, "epcreate_222_build",
          [loc[t] EXCEPT !.exists = EndpointDevice(call[t].epuid) \in LinkNames(Cur)],
          held[t])
    /\ Shared(Cur)

\* endpoint_create 222, Endpoint::new 134-165
EpCreate222Build(t) ==
    /\ At(t, "epcreate_222_build")
    /\ LET E == EndpointBuild(Cur, call[t].epuid, loc[t].exists)
       IN  /\ Shared(E.st)
           /\ Go(t, "epcreate_225", [loc[t] EXCEPT !.ep = E.ep, !.made = E.made], held[t])

\* endpoint_create 225-232: without the network the guard is dropped first
EpCreate225(t) ==
    /\ At(t, "epcreate_225")
    /\ IF call[t].nuid \in DOMAIN network_list
       THEN Go(t, "epcreate_229", loc[t], Append(held[t], Wants(t)))
       ELSE Go(t, "epcreate_233", loc[t], held[t])
    /\ Shared(Cur)

\* endpoint_create 229: endpoint_add
EpCreate229(t) ==
    /\ At(t, "epcreate_229")
    /\ Shared(WithNetwork(EndpointAdd(OfNetwork(Cur, call[t].nuid), loc[t].ep),
                          call[t].nuid))
    /\ Return(t, Released(held[t]))

\* endpoint_create 233: the Endpoint that was not added is dropped
EpCreate233(t) ==
    /\ At(t, "epcreate_233")
    /\ Shared(DropEndpoint(Cur, loc[t].ep))
    /\ Return(t, held[t])

\* endpoint_delete 237-244
EpDelete237(t) ==
    /\ At(t, "epdelete_237")
    /\ IF call[t].nuid \in DOMAIN network_list
       THEN Go(t, "epdelete_241", loc[t], Append(held[t], Wants(t)))
       ELSE Return(t, held[t])
    /\ Shared(Cur)

\* endpoint_delete 241: endpoint_remove
EpDelete241(t) ==
    /\ At(t, "epdelete_241")
    /\ Shared(WithNetwork(EndpointRemove(OfNetwork(Cur, call[t].nuid), call[t].epuid),
                          call[t].nuid))
    /\ Return(t, Released(held[t]))

\* network_create 158-160: options_parse, and Network::new 53-61: the links
\* are listed
Create158(t) ==
    /\ At(t, "create_158")
    /\ LET o == OptionsParse(call[t].options)
       IN  IF o.ok
           THEN Go(t, "create_160_build",
                   [loc[t] EXCEPT !.config = NetworkConfig(o.device, o.peer, o.canid),
                                  !.exists = (o.device \o o.canid) \in LinkNames(Cur)],
                   held[t])
           ELSE Return(t, held[t])
    /\ Shared(Cur)

\* network_create 160, Network::new 63-95
Create160Build(t) ==
    /\ At(t, "create_160_build")
    /\ LET N == NetworkBuild(Cur, loc[t].config.device, loc[t].config.peer,
                             loc[t].config.canid, loc[t].exists)
       IN  /\ Shared(N.st)
           /\ Go(t, "create_161", [loc[t] EXCEPT !.nw = N.nw, !.made = N.made], held[t])

\* network_create 161
Create161(t) ==
    /\ At(t, "create_161")
    /\ Shared(InsertNetwork(Cur, call[t].nuid, loc[t].nw))
    /\ Go(t, "create_178", [loc[t] EXCEPT !.nw = NoNetwork], held[t])

\* persist_network_config 178-181: the file is read
Create178(t) ==
    /\ At(t, "create_178")
    /\ Go(t, "create_189", [loc[t] EXCEPT !.configs = ReadConfigsOrDefault(file)], held[t])
    /\ Shared(Cur)

\* persist_network_config 184-189: the file is written
Create189(t) ==
    /\ At(t, "create_189")
    /\ Shared(WriteConfigs(Cur, MapPut(loc[t].configs, call[t].nuid, loc[t].config)))
    /\ Return(t, held[t])

\* network_delete 200-205
Delete200(t) ==
    /\ At(t, "delete_200")
    /\ Shared(RemoveNetwork(Cur, call[t].nuid))
    /\ Step(t, "delete_208", loc[t], held[t], [recoveries EXCEPT ![call[t].nuid] = 0])

\* network_delete 208-211: the file is read
Delete208(t) ==
    /\ At(t, "delete_208")
    /\ Go(t, "delete_216", [loc[t] EXCEPT !.configs = ReadConfigsOrDefault(file)], held[t])
    /\ Shared(Cur)

\* network_delete 213-217: the file is written
Delete216(t) ==
    /\ At(t, "delete_216")
    /\ Shared(WriteConfigs(Cur, MapDel(loc[t].configs, call[t].nuid)))
    /\ Return(t, held[t])

\* network_load 104-116: without the file nothing is loaded
Load104(t) ==
    /\ At(t, "load_104")
    /\ IF file.state = "absent"
       THEN Return(t, held[t])
       ELSE Go(t, "load_119", [loc[t] EXCEPT !.todo = call[t].networks], held[t])
    /\ Shared(Cur)

\* network_load 118-138: the next network of the engine; for one of this
\* driver, Network::new 53-61: the links are listed
Load119(t) ==
    /\ At(t, "load_119")
    /\ IF loc[t].todo = <<>>
       THEN Return(t, held[t])
       ELSE LET n == Head(loc[t].todo)
                config == NetworkConfig(EngineOption(n, "vxcan.dev", "vcan"),
                                        EngineOption(n, "vxcan.peer", "vcan"),
                                        EngineOption(n, "vxcan.id", "0"))
            IN  IF n.some /\ n.driver = "rustyvxcan"
                THEN Go(t, "load_138_build",
                        [loc[t] EXCEPT !.config = config,
                                       !.exists = (config.device \o config.canid)
                                                     \in LinkNames(Cur)], held[t])
                ELSE Go(t, "load_119", [loc[t] EXCEPT !.todo = Tail(@)], held[t])
    /\ Shared(Cur)

\* network_load 138, Network::new 63-95
Load138Build(t) ==
    /\ At(t, "load_138_build")
    /\ LET N == NetworkBuild(Cur, loc[t].config.device, loc[t].config.peer,
                             loc[t].config.canid, loc[t].exists)
       IN  /\ Shared(N.st)
           /\ Go(t, "load_139", [loc[t] EXCEPT !.nw = N.nw, !.made = N.made], held[t])

\* network_load 139
Load139(t) ==
    /\ At(t, "load_139")
    /\ Shared(InsertNetwork(Cur, Head(loc[t].todo).id, loc[t].nw))
    /\ Go(t, "load_119", [loc[t] EXCEPT !.todo = Tail(@), !.nw = NoNetwork], held[t])

\* A statement of the call thread t runs
Run(t) ==
        \/ Attach267(t) \/ Attach275(t) \/ Attach279(t) \/ Attach288(t) \/ Attach297(t)
        \/ Attach297Build(t) \/ Attach379Build(t) \/ EpCreate222Build(t)
        \/ Create160Build(t) \/ Load138Build(t)
        \/ Attach303(t) \/ Attach334(t) \/ Attach348(t) \/ Attach361(t) \/ Attach373(t)
        \/ Attach379(t) \/ Attach380(t) \/ Attach392(t)
        \/ NwAttach229(t) \/ NwAttach241(t) \/ NwAttach258(t) \/ NwAttach262(t)
        \/ Detach418(t) \/ NwDetach296(t) \/ NwDetach302(t)
        \/ EpCreate222(t) \/ EpCreate225(t) \/ EpCreate229(t) \/ EpCreate233(t)
        \/ EpDelete237(t) \/ EpDelete241(t)
        \/ Create158(t) \/ Create161(t) \/ Create178(t) \/ Create189(t)
        \/ Delete200(t) \/ Delete208(t) \/ Delete216(t)
        \/ Load104(t) \/ Load119(t) \/ Load139(t)

NextConc == \E t \in Threads : Start(t) \/ Run(t)

SpecConc == Init /\ [][NextConc]_vars

---------------------------------------------------------------------------
(* What the claims speak of                                                *)

Nets == DOMAIN network_list

Endpoints(n) == network_list[n].endpoint_list

\* The number of times pair p is in the list of rules
Count(rules, p) == Cardinality({i \in 1..Len(rules) : rules[i] = p})

\* The pairs invariant I3 asks of a Network: bus pairs of every endpoint and
\* cross pairs of every two distinct endpoints
I3Pairs(nw) ==
    LET eps == nw.endpoint_list
    IN  UNION {{<<nw.ifc, eps[u].device>>, <<eps[u].device, nw.ifc>>} : u \in DOMAIN eps}
        \cup {<<eps[q[1]].device, eps[q[2]].device>> :
                q \in {r \in (DOMAIN eps) \X (DOMAIN eps) : r[1] # r[2]}}

\* The device names an endpoint id of the model can give
Devices == {EndpointDevice(u) : u \in EpIds}

\* A directed pair between the bus of nw and a device, or between two devices
WellFormedPair(nw, p) ==
    \/ p[1] = nw.ifc /\ p[2] \in Devices
    \/ p[2] = nw.ifc /\ p[1] \in Devices
    \/ p[1] \in Devices /\ p[2] \in Devices /\ p[1] # p[2]

---------------------------------------------------------------------------
(* C1 *)

---------------------------------------------------------------------------
(* C2 *)

\* C2 as claimed: after every operation the file holds exactly the networks of
\* the map, each with the device, peer and canid of the Network in memory (a
\* file that is absent or not parsable holds no network).
C2_FileMirrorsMap ==
    LET configs == ReadConfigsOrDefault(file)
    IN  /\ DOMAIN configs = Nets
        /\ \A n \in Nets :
              configs[n] = NetworkConfig(network_list[n].device, network_list[n].peer,
                                         network_list[n].canid)

---------------------------------------------------------------------------
(* C3 *)

\* C3 as claimed: after every operation the bus of every Network of the map
\* is a link of the kernel.
C3_BusPresent == \A n \in Nets : NetworkInterfaceExists(Cur, network_list[n])

---------------------------------------------------------------------------
(* C4 *)

\* The kernel has the vxcan pair (device, peer)
PairPresent(ep) ==
    /\ Link(ep.device, "vxcan", ep.peer) \in {[l EXCEPT !.up = FALSE] : l \in links}
    /\ Link(ep.peer, "vxcan", ep.device) \in {[l EXCEPT !.up = FALSE] : l \in links}

\* C4 as claimed: after every operation the vxcan pair of every Endpoint of
\* every Network is in the kernel.
C4_PairPresent == \A n \in Nets : \A u \in DOMAIN Endpoints(n) : PairPresent(Endpoints(n)[u])

---------------------------------------------------------------------------
(* C5 *)

\* The lines of endpoint_attach from the re-check that missed to the insert
Recovering == {"attach_288", "attach_297", "attach_297_build", "attach_303"}

\* C5: whatever calls run concurrently, endpoint_attach inserts a Network for
\* an id from the file at most once until the id leaves the map again, and
\* the Network stays in the map for the calls that go on; a thread is
\* between the re-check and the insert only with load_mutex as its one guard,
\* and no two threads are there at once.
C5_RecoversOnce ==
    /\ \A n \in NetIds : recoveries[n] <= 1 /\ (recoveries[n] = 1 => n \in Nets)
    /\ \A t \in Threads :
          pc[t] \in Recovering \cup {"attach_279"} =>
              held[t] = <<Guard("load_mutex", "", "w")>>
    /\ \A t, u \in Threads : (pc[t] \in Recovering /\ pc[u] \in Recovering) => t = u

\* Two calls of endpoint_attach both missed the network at line 268; one has
\* inserted it from the file, the other found it at the re-check, and both
\* are at the lookup of line 334 with the Network in the map.
C5_Witness ==
    /\ \A t \in Threads :
          pc[t] = "attach_334" /\ ~loc[t].exists /\ call[t].nuid = "N1"
    /\ recoveries["N1"] = 1
    /\ "N1" \in Nets

---------------------------------------------------------------------------
(* C6 *)

Busy(t) == pc[t] # "idle"

\* C6: in every state of every interleaving, the guards a thread holds were
\* taken in the order load_mutex, network_list, endpoint_list, rules_list and
\* the lock it is about to take comes after all of them; a thread that runs
\* no call holds no guard; a thread whose lock is free can take its step; and
\* when some thread runs a call, some running thread is not waiting.
C6_LockOrder ==
    /\ \A t \in Threads :
          /\ \A i, j \in 1..Len(held[t]) :
                i < j => Rank(held[t][i].lock) < Rank(held[t][j].lock)
          /\ Wants(t) # NoGuard =>
                \A i \in 1..Len(held[t]) : Rank(held[t][i].lock) < Rank(Wants(t).lock)
          /\ ~Busy(t) => held[t] = <<>>
          /\ (Busy(t) /\ Acquirable(Wants(t))) => ENABLED Run(t)
    /\ (\E t \in Threads : Busy(t)) =>
          \E t \in Threads : Busy(t) /\ Acquirable(Wants(t))

\* One thread holds the map and the endpoints of N1 and is about to take the
\* rules, while another waits for the map with load_mutex in its hand.
C6_Witness ==
    \E t, u \in Threads :
        /\ pc[t] = "nwattach_262"
        /\ held[t] = <<Guard("network_list", "", "w"), Guard("endpoint_list", "N1", "r")>>
        /\ pc[u] \in {"attach_279", "attach_303"}
        /\ held[u] = <<Guard("load_mutex", "", "w")>>
        /\ ~Acquirable(Wants(u))

---------------------------------------------------------------------------
(* C7 *)

\* The rules, as a set, of network n in state S
RulesOf(S, n) ==
    IF n \in DOMAIN S.network_list THEN RuleSet(S.network_list[n]) ELSE {}

\* C7: right after an endpoint_attach(n, e), the same call again leaves the
\* rules of n the same set and returns the response the first call returned.
C7_AttachTwice ==
    last.op = "endpoint_attach" =>
        LET r == EndpointAttach(Cur, last.nuid, last.epuid, last.options)
        IN  /\ RulesOf(r.st, last.nuid) = RulesOf(Cur, last.nuid)
            /\ r.rsp = last.rsp

\* The last call was itself a second attach of an attached endpoint: it
\* succeeded, made the list longer and left the set of rules as it was.
C7_Witness ==
    /\ last.op = "endpoint_attach" /\ last.rsp.ok /\ last.pre_ep
    /\ last.pre_rules # <<>>
    /\ Len(network_list[last.nuid].rules_list) > Len(last.pre_rules)
    /\ RuleSet(network_list[last.nuid]) = {last.pre_rules[i] : i \in 1..Len(last.pre_rules)}
    /\ EndpointAttach(Cur, last.nuid, last.epuid, last.options).rsp = last.rsp

---------------------------------------------------------------------------
(* C8 *)

\* C8 as claimed: right after a successful endpoint_attach(n, e), an
\* endpoint_detach(n, e) leaves the rules of n the set they were before the
\* attach.
C8_AttachDetach ==
    (last.op = "endpoint_attach" /\ last.rsp.ok) =>
        RulesOf(EndpointDetach(Cur, last.nuid, last.epuid), last.nuid)
            = {last.pre_rules[i] : i \in 1..Len(last.pre_rules)}

---------------------------------------------------------------------------
(* C9 *)

\* The file is intact for network n: it parses and holds n, with the fields
\* of the Network of the map when the map has one
Intact(n) ==
    /\ file.state = "ok"
    /\ n \in DOMAIN file.configs
    /\ n \in Nets =>
          file.configs[n] = NetworkConfig(network_list[n].device, network_list[n].peer,
                                          network_list[n].canid)

\* n holds no endpoint but e and no rule but the bus pairs of e
Lone(n, e) ==
    n \in Nets =>
       /\ DOMAIN Endpoints(n) \subseteq {e}
       /\ RuleSet(network_list[n]) \subseteq
              {<<network_list[n].ifc, EndpointDevice(e)>>,
               <<EndpointDevice(e), network_list[n].ifc>>}

\* The links of state S that the attach of e to the network of bus ifc is about
LinksOf(S, ifc, e) ==
    {l \in S.links : l.name \in {ifc, EndpointDevice(e), EndpointPeer(e)}}

\* C9 as claimed: from every state whose file is intact for n, a restart and
\* then endpoint_attach(n, e) end with the links, the cangw jobs and the rules
\* of n that endpoint_attach(n, e) alone ends with.
C9_RestartSameAsNone ==
    \A c \in AttachCalls :
        Intact(c[1]) =>
            \A order \in Orders(DOMAIN file.configs) :
                LET A == EndpointAttach(Cur, c[1], c[2], c[3])
                    B == EndpointAttach(ManagerNew(Cur, order), c[1], c[2], c[3])
                IN  /\ B.st.links = A.st.links
                    /\ B.st.cangw = A.st.cangw
                    /\ RulesOf(B.st, c[1]) = RulesOf(A.st, c[1])

\* C9 as amended: from every state whose file is intact for n and where n
\* holds no endpoint but e and no rule but the bus pairs of e, a restart and
\* then endpoint_attach(n, e) end with the response, the rules of n, the cangw
\* jobs and the links of the bus of n and of the pair of e that
\* endpoint_attach(n, e) alone ends with.
C9_RestartSameForLoneEndpoint ==
    \A c \in AttachCalls :
        (Intact(c[1]) /\ Lone(c[1], c[2])) =>
            \A order \in Orders(DOMAIN file.configs) :
                LET A == EndpointAttach(Cur, c[1], c[2], c[3])
                    B == EndpointAttach(ManagerNew(Cur, order), c[1], c[2], c[3])
                    ifc == file.configs[c[1]].device \o file.configs[c[1]].canid
                IN  /\ B.rsp = A.rsp /\ B.rsp.ok
                    /\ RulesOf(B.st, c[1]) = RulesOf(A.st, c[1])
                    /\ B.st.cangw = A.st.cangw
                    /\ LinksOf(B.st, ifc, c[2]) = LinksOf(A.st, ifc, c[2])

\* An attach has just run as the first call after a restart, for an endpoint
\* whose rules the kernel still had: the jobs are there twice, the rules
\* once, and the network is in the case the amended claim covers.
C9_Witness ==
    /\ last.op = "endpoint_attach" /\ last.rsp.ok /\ last.after_new
    /\ Intact(last.nuid) /\ Lone(last.nuid, last.epuid)
    /\ Len(network_list[last.nuid].rules_list) = 2
    /\ CopiesIn(Job(network_list[last.nuid].ifc, EndpointDevice(last.epuid), FALSE), cangw) = 2

---------------------------------------------------------------------------
(* C10 *)

\* C10: an endpoint_attach(n, e) that is the first call after a restart, for
\* a network the file holds and an endpoint whose device the kernel has,
\* succeeds, leaves in the map an Endpoint e with created = FALSE, and spawns
\* no command that adds a vxcan pair.
C10_AdoptsPair ==
    (last.op = "endpoint_attach" /\ last.after_new /\ last.pre_net /\ last.pre_dev) =>
        /\ last.rsp.ok
        /\ last.nuid \in Nets
        /\ last.epuid \in DOMAIN Endpoints(last.nuid)
        /\ ~Endpoints(last.nuid)[last.epuid].created
        /\ \A i \in 1..Len(last.log) : last.log[i].cmd # "add_vxcan"

\* The first call after a restart has attached an endpoint whose pair the
\* kernel had kept: the Endpoint is adopted and its pair is whole.
C10_Witness ==
    /\ last.op = "endpoint_attach" /\ last.after_new /\ last.pre_net /\ last.pre_dev
    /\ ~last.pre_ep
    /\ last.rsp = JoinResponse(EndpointPeer(last.epuid), network_list[last.nuid].peer)
    /\ PairPresent(Endpoints(last.nuid)[last.epuid])
    /\ ~Endpoints(last.nuid)[last.epuid].created

---------------------------------------------------------------------------
(* C11 *)

\* The value of "vxcan.peer" in an options blob when the blob is a JSON
\* object that gives the key a non-empty string, else the empty string
PeerOverride(options) ==
    IF /\ options.json
       /\ "vxcan.peer" \in DOMAIN options.obj
       /\ options.obj["vxcan.peer"].str
    THEN options.obj["vxcan.peer"].s
    ELSE ""

\* C11: right after a successful endpoint_attach(n, e, options) the response
\* has SrcName = e.device + "p", the peer of the Endpoint in the map, and
\* DstPrefix = the non-empty string "vxcan.peer" of the options, or the peer
\* of the Network when the options give none.
C11_JoinResponse ==
    (last.op = "endpoint_attach" /\ last.rsp.ok) =>
        /\ last.nuid \in Nets
        /\ last.epuid \in DOMAIN Endpoints(last.nuid)
        /\ last.rsp.SrcName = EndpointDevice(last.epuid) \o "p"
        /\ last.rsp.SrcName = Endpoints(last.nuid)[last.epuid].peer
        /\ last.rsp.DstPrefix =
              IF PeerOverride(last.options) # ""
              THEN PeerOverride(last.options)
              ELSE network_list[last.nuid].peer

\* An attach with "vxcan.peer": "can42" has answered with that prefix on a
\* network whose own peer is another name.
C11_Witness ==
    /\ last.op = "endpoint_attach" /\ last.rsp.ok
    /\ PeerOverride(last.options) = "can42"
    /\ last.rsp = JoinResponse("vxcanAAAAAAAAp", "can42")
    /\ network_list[last.nuid].peer = "vcanp"


\* ---------------------------------------------------------------------------
\* C13: an object's created flag is true exactly when the add command this
\* process issued for it made the kernel link: right after Endpoint::new or
\* Network::new returns, in any thread, created equals "the add succeeded" -
\* false for an adopted link and false for an add that got "File exists"
\* because another thread made the same device in between.
C13_CreatedIffMade ==
    \A t \in Threads :
        /\ pc[t] \in {"epcreate_225", "attach_380"} => loc[t].ep.created = loc[t].made
        /\ pc[t] \in {"create_161", "load_139", "attach_303"}
               => loc[t].nw.created = loc[t].made


\* ---------------------------------------------------------------------------
\* The calls cs run one after the other from state S: the state they leave
\* and the result of each
RECURSIVE SerialRun(_, _)
SerialRun(S, cs) ==
    IF cs = <<>> THEN [st |-> S, rsps |-> <<>>]
    ELSE LET c == Head(cs)
             R == IF c.op = "endpoint_attach"
                  THEN EndpointAttach(S, c.nuid, c.epuid, c.options)
                  ELSE [st |-> EndpointDetach(S, c.nuid, c.epuid), rsp |-> RspErr]
             T == SerialRun(R.st, Tail(cs))
         IN  [st |-> T.st, rsps |-> <<R.rsp>> \o T.rsps]

\* C12: when threads have run only endpoint_attach and endpoint_detach calls
\* on one network and all of them have returned, there is an order of the
\* calls whose serial execution from the same start leaves the same rules in
\* every network (each pair as many times), the same kernel cangw jobs, and
\* gives every call the result it returned.
C12_Serializable ==
    (hist.pure /\ \A t \in Threads : pc[t] = "idle") =>
        \E o \in Orders(1..Len(hist.done)) :
            LET R == SerialRun(hist.base, [i \in 1..Len(hist.done) |-> hist.done[o[i]].call])
                nl == R.st.network_list
            IN  /\ DOMAIN nl = DOMAIN network_list
                /\ \A n \in DOMAIN nl :
                      \A p \in RuleSet(nl[n]) \cup RuleSet(network_list[n]) :
                          Count(nl[n].rules_list, p) = Count(network_list[n].rules_list, p)
                /\ R.st.cangw = cangw
                /\ \A i \in 1..Len(hist.done) : R.rsps[i] = hist.done[o[i]].rsp


C15_TwoJobsPerPair ==
    LET Pairs(n) == IF n \in Nets THEN Len(network_list[n].rules_list) ELSE 0
    IN  /\ \A n \in Nets : \A p \in RuleSet(network_list[n]) :
              /\ BagIn(Job(p[1], p[2], FALSE), cangw)
              /\ BagIn(Job(p[1], p[2], TRUE), cangw)
        /\ BagCardinality(cangw) = 2 * (Pairs("N1") + Pairs("N2"))


\* ---------------------------------------------------------------------------
\* C16: an endpoint_attach that finds its network id neither in the map (lines
\* 266-281) nor in the file - the file is missing, does not parse or has no
\* entry for the id (lines 288-325) - returns an error from there with no
\* guard in its hand, and none of its steps up to there changes the map, the
\* kernel or the file.
C16_UnknownNetworkFails ==
    [][\A t \in Threads :
          /\ (pc[t] \in {"attach_267", "attach_275", "attach_279", "attach_288"}
                  /\ pc'[t] # pc[t])
                => UNCHANGED <<network_list, links, cangw, file>>
          /\ (pc[t] = "attach_288" /\ pc'[t] # pc[t]
                  /\ ~(file.state = "ok" /\ call[t].nuid \in DOMAIN file.configs))
                => /\ pc'[t] = "idle"
                   /\ held'[t] = <<>>
                   /\ hist.pure =>
                         hist'.done = Append(hist.done, [call |-> call[t], rsp |-> RspErr])
      ]_vars

\* With no file to read and an empty map, an endpoint_attach has returned an
\* error: the map is still empty, the kernel has no link and no thread holds
\* a guard.
C16_Witness ==
    /\ hist.pure /\ hist.done # <<>>
    /\ hist.done[1].call.op = "endpoint_attach" /\ hist.done[1].rsp = RspErr
    /\ file.state # "ok"
    /\ network_list = EmptyMap /\ links = {}
    /\ \A t \in Threads : pc[t] = "idle" /\ held[t] = <<>>


\* ---------------------------------------------------------------------------
\* C17: a network_create whose options are not JSON reports the failure to
\* its caller and leaves the map, the kernel and the file as they were.
C17_BadOptionsFails ==
    [][(last'.op = "network_create" /\ ops' # ops /\ ~last'.options.json)
          => /\ NetworkCreateReturns(last'.options) = "Err"
             /\ UNCHANGED <<network_list, links, cangw, file>>]_vars


\* ---------------------------------------------------------------------------
\* C18: right after an endpoint_attach(n, e), for every other endpoint o of n:
\* when the device of o is missing from the kernel, the attach succeeded and
\* pushed the two bus pairs of e and no pair with o; and when e was in the
\* network without its device, while o has its device and was attached
\* before without a pair between o and e, the attach succeeded, the vxcan
\* pair of e is back in the kernel and the rules hold the bus pairs of both
\* and both pairs between them.
C18_LateCrossPairs ==
    (last.op = "endpoint_attach" /\ last.nuid \in Nets) =>
        LET nw == network_list[last.nuid]
            eps == nw.endpoint_list
            e == EndpointDevice(last.epuid)
            pre == {last.pre_rules[i] : i \in 1..Len(last.pre_rules)}
            added == {nw.rules_list[i] : i \in (Len(last.pre_rules) + 1)..Len(nw.rules_list)}
        IN  \A u \in (DOMAIN eps) \ {last.epuid} :
                LET o == eps[u].device
                IN  /\ o \notin LinkNames(Cur) =>
                          /\ last.rsp.ok
                          /\ added = {<<nw.ifc, e>>, <<e, nw.ifc>>}
                    /\ (/\ last.pre_ep /\ ~last.pre_dev
                        /\ o \in LinkNames(Cur)
                        /\ {<<nw.ifc, o>>, <<o, nw.ifc>>} \subseteq pre
                        /\ {<<o, e>>, <<e, o>>} \cap pre = {})
                          => /\ last.rsp.ok
                             /\ PairPresent(eps[last.epuid])
                             /\ {<<nw.ifc, o>>, <<o, nw.ifc>>, <<nw.ifc, e>>, <<e, nw.ifc>>,
                                 <<o, e>>, <<e, o>>} \subseteq RuleSet(nw)

\* Endpoint BBBBBBBBBB was attached to N1 last: it was in the network without
\* its device, AAAAAAAAAA had been attached with its bus pairs only, and now
\* the rules are the six pairs of the two, each once.
C18_Witness ==
    /\ last.op = "endpoint_attach" /\ last.nuid = "N1" /\ last.epuid = "BBBBBBBBBB"
    /\ last.rsp.ok /\ last.pre_ep /\ ~last.pre_dev
    /\ last.pre_rules = <<<<"vcan0", "vxcanAAAAAAAA">>, <<"vxcanAAAAAAAA", "vcan0">>>>
    /\ "N1" \in Nets
    /\ Len(network_list["N1"].rules_list) = 6
    /\ RuleSet(network_list["N1"]) = I3Pairs(network_list["N1"])
    /\ PairPresent(network_list["N1"].endpoint_list["BBBBBBBBBB"])


\* ---------------------------------------------------------------------------
\* C19: a network_load leaves every Network that was in the map in the map as
\* it was, with its interface and the devices of its endpoints in the kernel
\* if they were there; and with no file it changes nothing at all.
C19_LoadKeepsNetworks ==
    [][(last'.op = "network_load" /\ ops' # ops)
          => /\ \A n \in DOMAIN network_list :
                   /\ n \in DOMAIN network_list'
                   /\ network_list'[n] = network_list[n]
                   /\ \A l \in links :
                         (\/ l.name = network_list[n].ifc
                          \/ \E u \in DOMAIN network_list[n].endpoint_list :
                                l.name = network_list[n].endpoint_list[u].device)
                             => l \in links'
             /\ file.state = "absent" => UNCHANGED <<network_list, links, cangw, file>>
      ]_vars


\* ---------------------------------------------------------------------------
\* C20: right after NetworkManager::new, which always returns a Manager, the
\* map is empty when the file is missing or does not parse, and otherwise has
\* exactly the ids of the file, each with a Network of the entry's device,
\* peer and canid that has no endpoint and no rule.
C20_NewLoadsFile ==
    last.op = "new" =>
        IF file.state = "ok"
        THEN /\ Nets = DOMAIN file.configs
             /\ \A n \in Nets :
                   LET nw == network_list[n]
                       config == file.configs[n]
                   IN  /\ nw.device = config.device
                       /\ nw.peer = config.peer
                       /\ nw.canid = config.canid
                       /\ nw.ifc = config.device \o config.canid
                       /\ nw.endpoint_list = EmptyMap
                       /\ nw.rules_list = <<>>
        ELSE network_list = EmptyMap

\* A process started again on a file with two entries has two Networks.
C20_Witness ==
    /\ last.op = "new" /\ ops > 0
    /\ file.state = "ok"
    /\ Cardinality(DOMAIN file.configs) = 2
    /\ Cardinality(Nets) = 2


\* ---------------------------------------------------------------------------
\* C21: an endpoint_create(nuid, epuid) for a network id that is not in the
\* map leaves the map (and with it every network's endpoints and rules), the
\* file and the kernel's links as they were before the call.
C21_UnknownNetworkNoOp ==
    [][(last'.op = "endpoint_create" /\ ops' # ops
            /\ last'.nuid \notin DOMAIN network_list)
          => UNCHANGED <<network_list, file, links>>]_vars

\* An endpoint_create for a network that is not in the map has returned, and
\* the device of its endpoint, which the call made and took away again, is
\* not in the kernel.
C21_Witness ==
    /\ last.op = "endpoint_create"
    /\ last.nuid \notin Nets
    /\ EndpointDevice(last.epuid) \notin LinkNames(Cur)


\* ---------------------------------------------------------------------------
\* C22: after an endpoint_detach(n, e) of an endpoint e of a network n of the
\* map, the rules of n hold no pair that names the device of e, and every
\* other pair is in the rules as many times as before the call.
C22_DetachClearsEndpoint ==
    [][(last'.op = "endpoint_detach" /\ ops' # ops
            /\ last'.nuid \in DOMAIN network_list
            /\ last'.epuid \in DOMAIN network_list[last'.nuid].endpoint_list)
          => LET e == EndpointDevice(last'.epuid)
                 pre == network_list[last'.nuid].rules_list
                 post == network_list'[last'.nuid].rules_list
             IN  /\ \A i \in 1..Len(post) : post[i][1] # e /\ post[i][2] # e
                 /\ \A i \in 1..Len(pre) :
                       (pre[i][1] # e /\ pre[i][2] # e)
                          => Count(post, pre[i]) = Count(pre, pre[i])]_vars


\* C23: an endpoint_detach of an unknown network, of an endpoint id that the
\* network does not hold, or of an endpoint no rule of the network names,
\* changes nothing and spawns no command; and an endpoint_detach that follows
\* an endpoint_detach of the same network and endpoint changes nothing.
C23_DetachIdempotent ==
    [][(last'.op = "endpoint_detach" /\ ops' # ops)
          => LET n == last'.nuid
                 e == last'.epuid
                 dev == EndpointDevice(e)
                 nothing ==
                    \/ n \notin DOMAIN network_list
                    \/ e \notin DOMAIN network_list[n].endpoint_list
                    \/ \A p \in RuleSet(network_list[n]) : p[1] # dev /\ p[2] # dev
                 again ==
                    last.op = "endpoint_detach" /\ last.nuid = n /\ last.epuid = e
             IN  /\ nothing => (UNCHANGED <<network_list, links, cangw, file>>
                                  /\ last'.log = <<>>)
                 /\ again => UNCHANGED <<network_list, links, cangw, file>>]_vars


\* C24: a network that a network_delete which has returned removed from the
\* map and from the file, with no network_create, network_load or
\* network_delete running, is not put back in the map by the recovery of an
\* endpoint_attach: the insert of line 303 does not happen for it.  (The file
\* loses a network only by the write of a network_delete, which is its last
\* step; a network_create or network_load that ended after that write would
\* have left the network in the file or in the map.)
C24_DeleteStays ==
    [][\A t \in Threads :
          LET n == call[t].nuid
          IN  (/\ pc[t] = "attach_303"
               /\ pc'[t] # "attach_303"
               /\ n \notin DOMAIN network_list
               /\ n \notin DOMAIN ReadConfigsOrDefault(file)
               /\ \A u \in Threads \ {t} :
                     call[u].op \notin {"network_delete", "network_create", "network_load"})
              => n \notin DOMAIN network_list']_vars


\* C25: from every state, a call on network N1 followed by a call on network
\* N2 (network_create, network_delete, endpoint_create, endpoint_delete)
\* leaves the map with its endpoints, rules and created flags, the file and
\* the kernel as the same two calls in the other order.
C25_NetworksCommute ==
    LET Apply(S, c) ==
            CASE c.op = "network_create" -> NetworkCreate(S, c.nuid, c.options)
              [] c.op = "network_delete" -> NetworkDelete(S, c.nuid)
              [] c.op = "endpoint_create" -> EndpointCreate(S, c.nuid, c.epuid)
              [] c.op = "endpoint_delete" -> EndpointDelete(S, c.nuid, c.epuid)
        CallsOn(n) ==
            {[op |-> "network_create", nuid |-> c[1], epuid |-> "", options |-> c[2]] :
                c \in {d \in NetworkCreateCalls : d[1] = n}}
            \cup {[op |-> "network_delete", nuid |-> n, epuid |-> "", options |-> NotJson]}
            \cup {[op |-> o, nuid |-> c[1], epuid |-> c[2], options |-> NotJson] :
                    o \in {"endpoint_create", "endpoint_delete"},
                    c \in {d \in EndpointCalls : d[1] = n}}
        Same(S, T) ==
            /\ S.network_list = T.network_list
            /\ S.links = T.links
            /\ S.cangw = T.cangw
            /\ S.file = T.file
    IN  \A a \in CallsOn("N1"), b \in CallsOn("N2") :
            Same(Apply(Apply(Cur, a), b), Apply(Apply(Cur, b), a))


\* C26: in every state, for every network of the map and every Endpoint that
\* Endpoint::new returns, endpoint_add of that Endpoint spawns no command and
\* leaves the interfaces and the cangw jobs of the kernel as they were, also
\* when the network already holds an endpoint of that id.
C26_EndpointAddInMemory ==
    \A n \in Nets, uid \in EpIds :
        LET E == EndpointNew(Cur, uid)
            X == [st |-> [E.st EXCEPT !.log = <<>>], nw |-> E.st.network_list[n]]
            A == EndpointAdd(X, E.ep)
        IN  /\ A.st.log = <<>>
            /\ A.st.links = X.st.links
            /\ A.st.cangw = X.st.cangw


C28_OneEndpointBuilt ==
    LET Building == {"attach_379", "attach_379_build", "attach_380"}
        Attaching == {"attach_392", "nwattach_229", "nwattach_241", "nwattach_258",
                      "nwattach_262"}
        Held(t) == /\ call[t].nuid \in DOMAIN network_list
                   /\ call[t].epuid \in DOMAIN network_list[call[t].nuid].endpoint_list
    IN  \A t \in Threads :
           /\ pc[t] \in Building =>
                 /\ call[t].nuid \in DOMAIN network_list
                 /\ ~Held(t)
                 /\ \A u \in Threads \ {t} :
                       pc[u] \in Building
                          => <<call[u].nuid, call[u].epuid>> # <<call[t].nuid, call[t].epuid>>
           /\ (hist.pure /\ pc[t] \in Attaching /\ call[t].nuid \in DOMAIN network_list)
                 => Held(t)

\* C28: a thread that found the endpoint missing at line 348 is at the re-check
\* of line 373 and the endpoint is in the network: another thread inserted it
C28_Witness ==
    \E t \in Threads :
        /\ pc[t] = "attach_373"
        /\ hist.pure
        /\ call[t].epuid \in DOMAIN network_list[call[t].nuid].endpoint_list


\* C29: the write of the file by a network_create (persist_network_config,
\* lines 184-192) removes no entry of another network from the file: the
\* entries that other calls of network_create wrote since this call read the
\* file are in the file it writes.
C29_CreateKeepsEntries ==
    [][\A t \in Threads :
          (pc[t] = "create_189" /\ pc'[t] # "create_189")
             => \A n \in DOMAIN ReadConfigsOrDefault(file) \ {call[t].nuid} :
                   n \in DOMAIN ReadConfigsOrDefault(file')]_vars



C31_RulesUnique ==
    \A n \in Nets :
        LET rules == network_list[n].rules_list
        IN  \A i, j \in 1..Len(rules) : rules[i] = rules[j] => i = j

=============================================================================
